---- MODULE Spec2Model ----
(***************************************************************************)
(* Model of the data_analyzer package: the join-and-enrich pipeline of     *)
(* data_processor.process_csv_files (registry load, source readers,        *)
(* positional merge, ranking, blurbs, affordability ratio, output write)   *)
(* and the `process` command of cli.py that runs it.                       *)
(*                                                                         *)
(* Conventions.  A pandas cell is an option: NA (NaN / None / pd.NA) is    *)
(* the empty tuple and a present value v is <<v>>.  Text that the code     *)
(* inspects character by character (numeric cells) is a sequence of        *)
(* one-character strings; text that the code only tests for a substring    *)
(* or concatenates (ids, file names, column names, blurbs) is a sequence   *)
(* of segments whose concatenation is the text.                            *)
(***************************************************************************)
EXTENDS Integers, Sequences, FiniteSets, TLC

\* Largest number of rows of the KEYS file.
MaxRegions == 3

----------------------------------------------------------------------------
\* Options and small helpers

NA == <<>>
Some(v) == <<v>>
notna(c) == c # NA
Val(c) == c[1]

\* s1 in s2 for a text kept as segments: one of its segments is s1.
contains(text, s) == \E i \in DOMAIN text : text[i] = s

\* Sequences over S of length at most n.
SeqUpTo(S, n) == UNION { [1..k -> S] : k \in 0..n }

\* A Python dict as a sequence of <<key, value>> in insertion order:
\* d[k] = v replaces the value of an existing key in place.
DictSet(d, k, v) ==
    IF \E i \in DOMAIN d : d[i][1] = k
    THEN [i \in DOMAIN d |-> IF d[i][1] = k THEN <<k, v>> ELSE d[i]]
    ELSE Append(d, <<k, v>>)

DictHas(d, k) == \E i \in DOMAIN d : d[i][1] = k
DictGet(d, k) == d[CHOOSE i \in DOMAIN d : d[i][1] = k][2]

\* pd.Series(dict).values
SeriesValues(d) == [i \in DOMAIN d |-> d[i][2]]

----------------------------------------------------------------------------
\* Numeric text

Digits == {"0", "1", "2", "3", "4", "5", "6", "7", "8", "9"}

DigitVal == [c \in Digits |->
    CASE c = "0" -> 0 [] c = "1" -> 1 [] c = "2" -> 2 [] c = "3" -> 3
      [] c = "4" -> 4 [] c = "5" -> 5 [] c = "6" -> 6 [] c = "7" -> 7
      [] c = "8" -> 8 [] c = "9" -> 9]

\* str.replace(old, new) where old is one character and new a text.
RECURSIVE str_replace(_, _, _)
str_replace(s, old, new) ==
    IF s = <<>> THEN <<>>
    ELSE (IF Head(s) = old THEN new ELSE <<Head(s)>>)
         \o str_replace(Tail(s), old, new)

AllDigits(s) == \A i \in DOMAIN s : s[i] \in Digits

RECURSIVE DigitsValue(_)
DigitsValue(s) ==
    IF s = <<>> THEN 0
    ELSE 10 * DigitsValue(SubSeq(s, 1, Len(s) - 1)) + DigitVal[s[Len(s)]]

\* int(text): an option, NA standing for ValueError.
int_of_str(s) ==
    IF Len(s) > 0 /\ AllDigits(s) THEN Some(DigitsValue(s)) ELSE NA

\* int(float(text)): digits with at most one decimal point, truncated.
int_of_float_str(s) ==
    LET dots == {i \in DOMAIN s : s[i] = "."}
    IN  IF dots = {} THEN int_of_str(s)
        ELSE IF Cardinality(dots) > 1 THEN NA
        ELSE LET p == CHOOSE i \in dots : TRUE
                 whole == SubSeq(s, 1, p - 1)
                 frac == SubSeq(s, p + 1, Len(s))
             IN  IF AllDigits(whole) /\ AllDigits(frac) /\ Len(whole) + Len(frac) > 0
                 THEN Some(DigitsValue(whole)) ELSE NA

----------------------------------------------------------------------------
\* The combined table

output_columns == {
    "key_row", "census_population", "population_rank", "population_blurb",
    "median_household_income", "median_household_income_rank",
    "median_household_income_blurb", "median_sale_price",
    "median_sale_price_rank", "median_sale_price_blurb",
    "house_affordability_ratio", "house_affordability_ratio_rank",
    "house_affordability_ratio_blurb" }

\* A row created by the first column assignment: every other column NaN.
EmptyRow == [c \in output_columns |-> NA]

\* combine_data that pads or cuts the values to the row count, no ValueError.
combine_data_truncate(data, column_name, combined_df) ==
    IF Len(combined_df) = 0
    THEN [raised |-> FALSE,
          df |-> [i \in 1..Len(data) |-> [EmptyRow EXCEPT ![column_name] = data[i]]]]
    ELSE [raised |-> FALSE,
          df |-> [i \in DOMAIN combined_df |->
                    [combined_df[i] EXCEPT ![column_name] =
                        IF i <= Len(data) THEN data[i] ELSE NA]]]

\* combined_df[column_name] = data.values : positional assignment.  On the
\* empty frame the assignment creates one row per value; otherwise a length
\* that differs from the row count raises ValueError.
combine_data(data, column_name, combined_df) ==
    IF Len(combined_df) = 0
    THEN [raised |-> FALSE,
          df |-> [i \in 1..Len(data) |-> [EmptyRow EXCEPT ![column_name] = data[i]]]]
    ELSE IF Len(data) # Len(combined_df)
    THEN [raised |-> TRUE, df |-> combined_df]
    ELSE [raised |-> FALSE,
          df |-> [i \in 1..Len(data) |->
                    [combined_df[i] EXCEPT ![column_name] = data[i]]]]

\* combined_df[column_name] = series : the series carries the frame's index.
set_column(series, column_name, combined_df) ==
    [i \in DOMAIN combined_df |-> [combined_df[i] EXCEPT ![column_name] = series[i]]]

Column(combined_df, column_name) ==
    [i \in DOMAIN combined_df |-> combined_df[i][column_name]]

----------------------------------------------------------------------------
\* KEYS file

KeyRecord(k, t, z, a) ==
    [key_row |-> k, region_type |-> t, zillow_region_name |-> z,
     alternative_name |-> a]

washington_dc == <<"washington_dc">>
puerto_rico == <<"puerto_rico">>
alabama == <<"alabama">>

\* Rows a KEYS file is made of.
KeyPool == {
    KeyRecord(alabama, "state", "Alabama", "Alabama"),
    KeyRecord(washington_dc, "state", "District of Columbia", "Washington, D.C."),
    KeyRecord(puerto_rico, "state", "Puerto Rico", "Puerto Rico"),
    KeyRecord(<<"hawai", "'", "i">>, "state", "Hawaii", "Hawaii"),
    KeyRecord(<<"austin_tx">>, "metro", "Austin, TX", "Austin") }

KeysContents ==
    { [readable |-> TRUE, columns_ok |-> TRUE, rows |-> r] :
        r \in SeqUpTo(KeyPool, MaxRegions) }
    \cup { [readable |-> FALSE, columns_ok |-> TRUE, rows |-> <<>>],
           [readable |-> TRUE, columns_ok |-> FALSE,
            rows |-> <<KeyRecord(alabama, "state", "Alabama", "Alabama")>>] }

\* process_keys_data without the apostrophe filter.
process_keys_data_keep_apostrophe(df) ==
    LET is_state(r) == r.region_type = "state"
        kept == SelectSeq(df, is_state)
    IN  [i \in DOMAIN kept |-> kept[i].key_row]

\* The key_row series of the rows kept: region_type == "state" and no
\* apostrophe in key_row.
process_keys_data(df) ==
    LET is_state(r) == r.region_type = "state"
        no_apostrophe(r) == ~ contains(r.key_row, "'")
        kept == SelectSeq(SelectSeq(df, is_state), no_apostrophe)
    IN  [i \in DOMAIN kept |-> kept[i].key_row]

\* The value of `column` in the first row of keys_df whose key_row is key,
\* None when there is none.
find_key_row(keys_df, key, column) ==
    LET matching == {i \in DOMAIN keys_df : keys_df[i].key_row = key}
    IN  IF matching = {} THEN NA
        ELSE Some(keys_df[CHOOSE i \in matching : \A j \in matching : i <= j][column])

----------------------------------------------------------------------------
\* Census files (population, median household income)

\* One-character text of a cell.
T_5000 == <<"5", ",", "0", "0", "0">>
T_3000 == <<"3", ",", "0", "0", "0">>
T_60000 == <<"6", "0", ",", "0", "0", "0">>
T_25000 == <<"2", "5", ",", "0", "0", "0">>
T_0 == <<"0">>
T_bad == <<"(", "X", ")">>

\* The name of a column: the alias followed by a suffix.
ColumnName(alias, suffix) == <<alias, suffix>>

\* A census file: whether read_csv succeeds, whether the row with the wanted
\* label exists, and the cell of that row under every column of the file
\* (has_dc: the file has a column for the District of Columbia).
CensusFile(label_row, has_dc, dc, al, pr, suffix) ==
    [readable |-> TRUE, label_row |-> label_row,
     cells |-> [c \in {ColumnName("Alabama", suffix),
                       ColumnName("Puerto Rico", suffix)}
                      \cup (IF has_dc
                            THEN {ColumnName("District of Columbia", suffix)}
                            ELSE {})
                |-> IF c[1] = "Alabama" THEN al
                    ELSE IF c[1] = "Puerto Rico" THEN pr ELSE dc]]

UnreadableFile == [readable |-> FALSE]

PopSuffix == "!!Estimate"
MhiSuffix == "!!Median income (dollars)!!Estimate"

PopulationContents == {
    CensusFile(TRUE, TRUE, Some(T_5000), Some(T_5000), Some(T_3000), PopSuffix),
    CensusFile(TRUE, TRUE, Some(T_bad), Some(T_5000), Some(T_3000), PopSuffix),
    CensusFile(TRUE, FALSE, NA, Some(T_5000), Some(T_3000), PopSuffix),
    UnreadableFile }

IncomeContents == {
    CensusFile(TRUE, TRUE, Some(T_60000), Some(T_25000), Some(T_25000), MhiSuffix),
    CensusFile(TRUE, TRUE, Some(T_60000), Some(T_0), Some(T_25000), MhiSuffix),
    CensusFile(TRUE, TRUE, NA, Some(T_25000), Some(T_60000), MhiSuffix),
    CensusFile(FALSE, TRUE, Some(T_60000), Some(T_25000), Some(T_25000), MhiSuffix),
    UnreadableFile }

\* The value of one region in a census frame: NA stands for the exception
\* the expression raises (TypeError for a None alias, KeyError for an absent
\* column, IndexError for an absent label row, AttributeError for a NaN
\* cell, ValueError for text that is not an integer).
census_value(df, keys_df, key, suffix) ==
    LET alias == find_key_row(keys_df, key, "zillow_region_name")
    IN  IF alias = NA THEN NA
        ELSE LET key_row == ColumnName(Val(alias), suffix)
             IN  IF key_row \notin DOMAIN df.cells THEN NA
                 ELSE IF ~ df.label_row THEN NA
                 ELSE IF df.cells[key_row] = NA THEN NA
                 ELSE int_of_str(str_replace(Val(df.cells[key_row]), ",", <<>>))

\* The loop over the rows of combined_df: the dict built so far, or the
\* first exception raised.
RECURSIVE census_loop(_, _, _, _, _)
census_loop(df, keys_df, combined_df, suffix, n) ==
    IF n = 0 THEN [raised |-> FALSE, dict |-> <<>>]
    ELSE LET before == census_loop(df, keys_df, combined_df, suffix, n - 1)
             key == combined_df[n]["key_row"]
             value == census_value(df, keys_df, key, suffix)
         IN  IF before.raised \/ value = NA
             THEN [raised |-> TRUE, dict |-> <<>>]
             ELSE [raised |-> FALSE, dict |-> DictSet(before.dict, key, value)]

process_census_population_data(df, keys_df, combined_df) ==
    census_loop(df, keys_df, combined_df, PopSuffix, Len(combined_df))

process_median_household_income_data(df, keys_df, combined_df) ==
    census_loop(df, keys_df, combined_df, MhiSuffix, Len(combined_df))

----------------------------------------------------------------------------
\* Redfin file (median sale price)

P_300K == <<"$", "3", "0", "0", "K">>
P_565K == <<"$", "5", "6", "5", "K">>
P_999K == <<"$", "9", "9", "9", "K">>
P_bad == <<"n", "/", "a">>

\* A Redfin frame as read_csv returns it: row 1 holds the real header (the
\* label of the region column and of every date column, oldest first), the
\* other rows hold a region name and one cell per date column.
RedfinHeader == [region |-> "Region", cells |-> <<"January 2024", "February 2024">>]
RedfinRow(region, c1, c2) == [region |-> region, cells |-> <<c1, c2>>]
RedfinFile(rows) == [readable |-> TRUE, rows |-> <<RedfinHeader>> \o rows]

RedfinContents == {
    RedfinFile(<<RedfinRow("Alabama", Some(P_300K), Some(P_565K)),
                 RedfinRow("District of Columbia", Some(P_999K), Some(P_999K))>>),
    RedfinFile(<<RedfinRow("Alabama", Some(P_300K), NA)>>),
    RedfinFile(<<RedfinRow("Alabama", NA, NA),
                 RedfinRow("Puerto Rico", Some(P_999K), NA)>>),
    RedfinFile(<<RedfinRow("District of Columbia", Some(P_300K), Some(P_300K))>>),
    RedfinFile(<<RedfinRow("Alabama", Some(P_300K), Some(P_bad))>>),
    UnreadableFile }

hard_coded_dc == 565000
hard_coded_pr == 138000

\* The most recent date column with a value in some data row, None if none.
RECURSIVE redfin_latest_date(_, _, _)
redfin_latest_date(header, data, col) ==
    IF col = 0 THEN NA
    ELSE IF \E r \in DOMAIN data : notna(data[r].cells[col])
    THEN Some(header.cells[col])
    ELSE redfin_latest_date(header, data, col - 1)

\* The scan of one row from the last column to the first: the first cell
\* that is neither NaN nor "" decides.  raised: the cell does not parse.
RECURSIVE latest_price(_, _)
latest_price(cells, col) ==
    IF col = 0 THEN [raised |-> FALSE, value |-> NA]
    ELSE LET price == cells[col]
         IN  IF notna(price) /\ Val(price) # <<>>
             THEN LET text == str_replace(str_replace(Val(price), "$", <<>>),
                                          "K", <<"0", "0", "0">>)
                      parsed == int_of_float_str(text)
                  IN  [raised |-> parsed = NA, value |-> parsed]
             ELSE latest_price(cells, col - 1)

\* The sale price of one region.
sale_price_value(data, keys_df, key) ==
    LET key_row == find_key_row(keys_df, key, "zillow_region_name")
        matching_rows == {r \in DOMAIN data : Some(data[r].region) = key_row}
    IN  IF key = washington_dc THEN [raised |-> FALSE, value |-> Some(hard_coded_dc)]
        ELSE IF key = puerto_rico THEN [raised |-> FALSE, value |-> Some(hard_coded_pr)]
        ELSE IF matching_rows # {}
        THEN LET first == CHOOSE r \in matching_rows : \A q \in matching_rows : r <= q
             IN  latest_price(data[first].cells, Len(data[first].cells))
        ELSE [raised |-> FALSE, value |-> NA]

RECURSIVE sale_price_loop(_, _, _, _)
sale_price_loop(data, keys_df, combined_df, n) ==
    IF n = 0 THEN [raised |-> FALSE, dict |-> <<>>]
    ELSE LET before == sale_price_loop(data, keys_df, combined_df, n - 1)
             key == combined_df[n]["key_row"]
             one == sale_price_value(data, keys_df, key)
         IN  IF before.raised \/ one.raised
             THEN [raised |-> TRUE, dict |-> <<>>]
             ELSE [raised |-> FALSE, dict |-> DictSet(before.dict, key, one.value)]

\* Row 1 becomes the header (IndexError on a frame without rows); returns
\* the series and the latest date.
process_median_sale_price_data(df, keys_df, combined_df) ==
    IF Len(df.rows) = 0
    THEN [raised |-> TRUE, dict |-> <<>>, latest_date |-> NA]
    ELSE LET header == df.rows[1]
             data == Tail(df.rows)
             loop == sale_price_loop(data, keys_df, combined_df, Len(combined_df))
         IN  [raised |-> loop.raised, dict |-> loop.dict,
              latest_date |-> redfin_latest_date(header, data, Len(header.cells))]

----------------------------------------------------------------------------
\* Ranks

\* get_ordinal without the NaN test: a missing rank reads as rank 0.
get_ordinal_no_na(n) ==
    LET k == IF n = NA THEN 0 ELSE Val(n)
    IN  IF 11 <= k % 100 /\ k % 100 <= 13 THEN ToString(k) \o "th"
        ELSE ToString(k) \o (CASE k % 10 = 1 -> "st"
                               [] k % 10 = 2 -> "nd"
                               [] k % 10 = 3 -> "rd"
                               [] OTHER -> "th")

\* get_ordinal without the test for 11, 12 and 13.
get_ordinal_no_teens(n) ==
    IF n = NA THEN "N/A"
    ELSE LET k == Val(n)
         IN  ToString(k) \o (CASE k % 10 = 1 -> "st"
                                [] k % 10 = 2 -> "nd"
                                [] k % 10 = 3 -> "rd"
                                [] OTHER -> "th")

get_ordinal(n) ==
    IF n = NA THEN "N/A"
    ELSE LET k == Val(n)
         IN  IF 11 <= k % 100 /\ k % 100 <= 13 THEN ToString(k) \o "th"
             ELSE ToString(k) \o (CASE k % 10 = 1 -> "st"
                                    [] k % 10 = 2 -> "nd"
                                    [] k % 10 = 3 -> "rd"
                                    [] OTHER -> "th")

\* rank with method="dense": one more than the number of distinct better
\* values.
min_rank_dense(values, ascending) ==
    [i \in DOMAIN values |->
        IF values[i] = NA THEN NA
        ELSE Some(1 + Cardinality({Val(values[j]) : j \in {k \in DOMAIN values :
                    /\ notna(values[k])
                    /\ IF ascending THEN Val(values[k]) < Val(values[i])
                       ELSE Val(values[k]) > Val(values[i])}}))]

\* rank with method="first": equal values are ranked in the order of their
\* rows.
min_rank_first(values, ascending) ==
    [i \in DOMAIN values |->
        IF values[i] = NA THEN NA
        ELSE Some(1 + Cardinality({k \in DOMAIN values :
                    /\ notna(values[k])
                    /\ \/ IF ascending THEN Val(values[k]) < Val(values[i])
                          ELSE Val(values[k]) > Val(values[i])
                       \/ Val(values[k]) = Val(values[i]) /\ k < i}))]

\* Series.rank(ascending, method="min", na_option="keep"): the values
\* present are put in rank order and a value's rank is the first position of
\* the sorted sequence that holds it; NaN keeps NaN.
min_rank(values, ascending) ==
    LET present == SelectSeq(values, notna)
        before(a, b) == IF ascending THEN Val(a) < Val(b) ELSE Val(a) > Val(b)
        sorted == SortSeq(present, before)
        first(v) == CHOOSE k \in DOMAIN sorted :
                        sorted[k] = v /\ \A j \in 1..(k - 1) : sorted[j] # v
    IN  [i \in DOMAIN values |->
            IF values[i] = NA THEN NA ELSE Some(first(values[i]))]

process_rank_data(combined_df, column_name, ascending) ==
    LET ranks == min_rank(Column(combined_df, column_name), ascending)
    IN  [i \in DOMAIN ranks |-> Some(get_ordinal(ranks[i]))]

----------------------------------------------------------------------------
\* Affordability ratio, in tenths

RECURSIVE Pow2(_)
Pow2(n) == IF n = 0 THEN 1 ELSE 2 * Pow2(n - 1)

\* The binary exponent of the quotient k/20: the l with 2^l <= k/20 < 2^(l+1).
binary_exponent(k) ==
    CHOOSE l \in -5..25 :
        IF l >= 0 THEN 20 * Pow2(l) <= k /\ k < 20 * Pow2(l + 1)
        ELSE 20 <= k * Pow2(-l) /\ k * Pow2(-l) < 40

\* p / q is a double.  When the quotient is k/20 with k odd (halfway between
\* two tenths) the double is the multiple of 2^-e nearest to it, where
\* e = 52 - binary_exponent(k); it lies below k/20 when the remainder of
\* k * 2^e by 20 is under 10, above when it is over 10, and is k/20 itself
\* when the remainder is 0.  (2^e mod 20 is 16, 12, 4, 8 for e mod 4 =
\* 0, 1, 2, 3 and e >= 2.)
double_of_tie(k) ==
    LET e == 52 - binary_exponent(k)
        pow == CASE e % 4 = 0 -> 16 [] e % 4 = 1 -> 12
                 [] e % 4 = 2 -> 4 [] OTHER -> 8
        r == ((k % 20) * pow) % 20
    IN  IF r = 0 THEN "exact" ELSE IF r < 10 THEN "below" ELSE "above"

\* round(p / q, 1) that cuts the quotient after the first decimal.
round_ratio_floor(p, q) == (10 * p) \div q

\* round(p / q, 1) in tenths: the tenth nearest to the double p / q, and the
\* even tenth when the double is exactly halfway.
round_ratio(p, q) ==
    LET twice == 20 * p
        floor == twice \div (2 * q)
        rest == twice - floor * 2 * q
        side == double_of_tie(2 * floor + 1)
    IN  IF rest < q THEN floor
        ELSE IF rest > q THEN floor + 1
        ELSE IF side = "below" THEN floor
        ELSE IF side = "above" THEN floor + 1
        ELSE IF floor % 2 = 0 THEN floor ELSE floor + 1

\* DataFrame.apply(axis=1) hands the lambda rows of Python ints (the frame is
\* of mixed dtypes, so its values are boxed), hence an income of 0 beside a
\* present sale price raises ZeroDivisionError instead of giving inf; on the
\* empty frame apply returns an empty series.  raised: some row divides by 0.
calculate_house_affordability_ratio(df) ==
    LET both(i) == /\ notna(df[i]["median_sale_price"])
                   /\ notna(df[i]["median_household_income"])
    IN  [raised |-> \E i \in DOMAIN df :
                        both(i) /\ Val(df[i]["median_household_income"]) = 0,
         series |-> [i \in DOMAIN df |->
                        IF both(i) /\ Val(df[i]["median_household_income"]) # 0
                        THEN Some(round_ratio(Val(df[i]["median_sale_price"]),
                                              Val(df[i]["median_household_income"])))
                        ELSE NA]]

----------------------------------------------------------------------------
\* Blurbs.  A blurb is the sequence of the segments of its f-string.

\* str() of an interpolated value.
fmt(cell, missing) == IF cell = NA THEN missing ELSE Val(cell)

\* The loop of a generator: blurb_dict[row["key_row"]] = blurb for the
\* first n rows, blurbs[i] being the blurb of row i.
RECURSIVE blurb_loop(_, _, _)
blurb_loop(combined_df, blurbs, n) ==
    IF n = 0 THEN <<>>
    ELSE DictSet(blurb_loop(combined_df, blurbs, n - 1),
                 combined_df[n]["key_row"], Some(blurbs[n]))

population_blurb_text(keys_df, row) ==
    <<fmt(find_key_row(keys_df, row["key_row"], "alternative_name"), "None"),
      " is ", fmt(row["population_rank"], "nan"),
      "  in the nation in population among states, DC, and Puerto Rico.">>

\* The income blurb without the substitution of "the highest" for "1st".
median_household_income_blurb_text_plain(keys_df, row) ==
    <<fmt(find_key_row(keys_df, row["key_row"], "alternative_name"), "None"),
      " is ", fmt(row["median_household_income_rank"], "nan"),
      " in the nation in median household income among states, DC, and Puerto Rico.">>

median_household_income_blurb_text(keys_df, row) ==
    LET rank == IF row["median_household_income_rank"] = Some("1st")
                THEN "the highest"
                ELSE fmt(row["median_household_income_rank"], "nan")
    IN  <<fmt(find_key_row(keys_df, row["key_row"], "alternative_name"), "None"),
          " is ", rank,
          " in the nation in median household income among states, DC, and Puerto Rico.">>

median_sale_price_blurb_text(keys_df, row, data_date) ==
    LET rank_text == IF row["median_sale_price_rank"] = Some("1st")
                     THEN "single"
                     ELSE fmt(row["median_sale_price_rank"], "nan")
    IN  <<fmt(find_key_row(keys_df, row["key_row"], "alternative_name"), "None"),
          " has the ", rank_text,
          " highest median sale price on homes in the nation among states, DC, and Puerto Rico, according to Redfin data from ",
          fmt(data_date, "None"), ".">>

house_affordability_ratio_blurb_text(keys_df, row, data_date) ==
    LET rank_value == row["house_affordability_ratio_rank"]
        rank_text == IF rank_value = NA THEN "N/A"
                     ELSE IF rank_value = Some("1st") THEN "single"
                     ELSE Val(rank_value)
        found == find_key_row(keys_df, row["key_row"], "alternative_name")
        key_row_alt_name == IF found = NA
                            THEN <<"Region (">> \o row["key_row"] \o <<")">>
                            ELSE <<Val(found)>>
    IN  IF rank_text = "N/A"
        THEN key_row_alt_name \o <<" has an ", "N/A", " house affordability ratio.">>
        ELSE key_row_alt_name \o
             <<" has the ", rank_text,
               " lowest house affordability ratio in the nation among states, DC, and Puerto Rico, according to Redfin data from ",
               fmt(data_date, "None"), ".">>

process_blurb_population_data(keys_df, combined_df) ==
    blurb_loop(combined_df,
               [i \in DOMAIN combined_df |->
                   population_blurb_text(keys_df, combined_df[i])],
               Len(combined_df))

process_blurb_median_household_income_data(keys_df, combined_df) ==
    blurb_loop(combined_df,
               [i \in DOMAIN combined_df |->
                   median_household_income_blurb_text(keys_df, combined_df[i])],
               Len(combined_df))

process_blurb_median_sale_price_data(keys_df, combined_df, data_date) ==
    blurb_loop(combined_df,
               [i \in DOMAIN combined_df |->
                   median_sale_price_blurb_text(keys_df, combined_df[i], data_date)],
               Len(combined_df))

process_blurb_house_affordability_ratio_data(keys_df, combined_df, data_date) ==
    blurb_loop(combined_df,
               [i \in DOMAIN combined_df |->
                   house_affordability_ratio_blurb_text(keys_df, combined_df[i], data_date)],
               Len(combined_df))

----------------------------------------------------------------------------
\* The run: cli.process calling process_csv_files

F_KEYS == <<"KEYS", ".csv">>
F_POPULATION == <<"CENSUS_POPULATION", ".csv">>
F_INCOME == <<"CENSUS_MHI_STATE", ".csv">>
F_REDFIN == <<"REDFIN_MEDIAN_SALE_PRICE", ".tsv">>

AllFiles == {F_KEYS, F_POPULATION, F_INCOME, F_REDFIN}

\* What a file of the input directory may hold.
Contents(file_path) ==
    IF contains(file_path, "KEYS") THEN KeysContents
    ELSE IF contains(file_path, "CENSUS_POPULATION") THEN PopulationContents
    ELSE IF contains(file_path, "CENSUS_MHI_STATE") THEN IncomeContents
    ELSE RedfinContents

\* The input directories: empty, without a KEYS file, with the KEYS file
\* only, with the four files.
Directories == {{}, {F_KEYS}, AllFiles \ {F_KEYS}, AllFiles}

\* Outcomes of DataFrame.to_csv and of its retry in the except branch.
DiskOutcomes == {"written", "failed_then_written", "failed_file_left", "failed_twice"}

VARIABLES
    input_dir,      \* the files of the input directory
    csv_files,      \* the list get_csv_files returned
    todo,           \* the files the second loop has not reached yet
    pc,             \* the position of the run
    keys_df_bound,  \* whether the local keys_df has been assigned
    keys_df,        \* the raw KEYS frame
    combined_df,    \* the combined table, a sequence of rows
    redfin_date,    \* the latest date of the Redfin frame, None at first
    src,            \* the content read from every file opened so far
    reader_out,     \* the dict every reader that returned has produced
    failed,         \* the files whose processing raised
    output_file,    \* output.csv: NA, or how it was written and what
    exception,      \* the exception that left process_csv_files, None if none
    cli_msg,        \* what the process command printed at the end
    args,           \* the arguments of a function called on its own
    ret             \* what that function returned

vars == <<input_dir, csv_files, todo, pc, keys_df_bound, keys_df, combined_df,
          redfin_date, src, reader_out, failed, output_file, exception, cli_msg,
          args, ret>>

Init ==
    /\ input_dir \in Directories
    /\ csv_files = {}
    /\ todo = {}
    /\ pc = "get_csv_files"
    /\ keys_df_bound = FALSE
    /\ keys_df = <<>>
    /\ combined_df = <<>>
    /\ redfin_date = NA
    /\ src = [f \in AllFiles |-> NA]
    /\ reader_out = [c \in {"census_population", "median_household_income",
                            "median_sale_price"} |-> NA]
    /\ failed = {}
    /\ output_file = NA
    /\ exception = NA
    /\ cli_msg = "none"
    /\ args = NA
    /\ ret = NA

\* get_csv_files: ValueError when the directory holds no csv/tsv file.
GetCsvFiles ==
    /\ pc = "get_csv_files"
    /\ IF input_dir = {}
       THEN /\ pc' = "raised"
            /\ exception' = Some("ValueError: No CSV/TSV files found")
            /\ UNCHANGED csv_files
       ELSE /\ pc' = "keys"
            /\ csv_files' = input_dir
            /\ UNCHANGED exception
    /\ UNCHANGED <<args, ret, input_dir, todo, keys_df_bound, keys_df, combined_df,
                   redfin_date, src, reader_out, failed, output_file, cli_msg>>

\* AfterData that leaves the second loop at once.
AfterData_leave(remaining) == "ranks"

\* Where the run goes once the second loop has nothing left.
AfterData(remaining) == IF remaining = {} THEN "ranks" ELSE "data"

DataFiles(files) == {f \in files : ~ contains(f, "KEYS")}

\* The first loop: the KEYS file, when there is one.
ProcessKeysFile ==
    /\ pc = "keys"
    /\ todo' = DataFiles(csv_files)
    /\ pc' = AfterData(todo')
    /\ IF \E f \in csv_files : contains(f, "KEYS")
       THEN \E f \in {g \in csv_files : contains(g, "KEYS")} :
            \E content \in Contents(f) :
               /\ src' = [src EXCEPT ![f] = Some(content)]
               /\ IF ~ content.readable
                  THEN /\ failed' = failed \cup {f}
                       /\ UNCHANGED <<keys_df_bound, keys_df, combined_df>>
                  ELSE /\ keys_df_bound' = TRUE
                       /\ keys_df' = content.rows
                       /\ IF ~ content.columns_ok
                          THEN /\ failed' = failed \cup {f}
                               /\ UNCHANGED combined_df
                          ELSE LET merged == combine_data(process_keys_data(content.rows),
                                                          "key_row", combined_df)
                               IN  /\ combined_df' = merged.df
                                   /\ failed' = IF merged.raised
                                                THEN failed \cup {f} ELSE failed
       ELSE UNCHANGED <<keys_df_bound, keys_df, combined_df, src, failed>>
    /\ UNCHANGED <<args, ret, input_dir, csv_files, redfin_date, reader_out, output_file,
                   exception, cli_msg>>

\* ColumnOf that sends both census files to the population column.
ColumnOf_census(file_path) ==
    IF contains(file_path, "REDFIN_MEDIAN_SALE_PRICE") THEN "median_sale_price"
    ELSE "census_population"

\* The column a data file fills.
ColumnOf(file_path) ==
    IF contains(file_path, "CENSUS_POPULATION") THEN "census_population"
    ELSE IF contains(file_path, "CENSUS_MHI_STATE") THEN "median_household_income"
    ELSE "median_sale_price"

\* What the reader of a data file returns.
ReaderOf(file_path, df, keys, table) ==
    IF contains(file_path, "CENSUS_POPULATION")
    THEN process_census_population_data(df, keys, table)
    ELSE IF contains(file_path, "CENSUS_MHI_STATE")
    THEN process_median_household_income_data(df, keys, table)
    ELSE process_median_sale_price_data(df, keys, table)

\* One iteration of the second loop on a file that is not the KEYS file.
ProcessDataFile ==
    /\ pc = "data"
    /\ \E f \in todo :
       \E content \in Contents(f) :
          /\ todo' = todo \ {f}
          /\ pc' = AfterData(todo')
          /\ src' = [src EXCEPT ![f] = Some(content)]
          /\ IF ~ content.readable \/ ~ keys_df_bound
             THEN /\ failed' = failed \cup {f}
                  /\ UNCHANGED <<combined_df, redfin_date, reader_out>>
             ELSE LET read == ReaderOf(f, content, keys_df, combined_df)
                      merged == combine_data(SeriesValues(read.dict), ColumnOf(f),
                                             combined_df)
                  IN  IF read.raised
                      THEN /\ failed' = failed \cup {f}
                           /\ UNCHANGED <<combined_df, redfin_date, reader_out>>
                      ELSE /\ reader_out' = [reader_out EXCEPT ![ColumnOf(f)] = Some(read.dict)]
                           /\ redfin_date' = IF contains(f, "REDFIN_MEDIAN_SALE_PRICE")
                                             THEN read.latest_date ELSE redfin_date
                           /\ combined_df' = merged.df
                           /\ failed' = IF merged.raised THEN failed \cup {f} ELSE failed
    /\ UNCHANGED <<args, ret, input_dir, csv_files, keys_df_bound, keys_df, output_file,
                   exception, cli_msg>>

\* The three rank columns.
ranked(df) ==
    LET df1 == set_column(process_rank_data(df, "census_population", FALSE),
                          "population_rank", df)
        df2 == set_column(process_rank_data(df1, "median_household_income", FALSE),
                          "median_household_income_rank", df1)
    IN  set_column(process_rank_data(df2, "median_sale_price", FALSE),
                   "median_sale_price_rank", df2)

CalculateRanks ==
    /\ pc = "ranks"
    /\ combined_df' = ranked(combined_df)
    /\ pc' = "blurbs"
    /\ UNCHANGED <<args, ret, input_dir, csv_files, todo, keys_df_bound, keys_df, redfin_date,
                   src, reader_out, failed, output_file, exception, cli_msg>>

\* The three blurb columns, outside any try: an unbound keys_df or a
\* ValueError of combine_data ends process_csv_files.
GenerateBlurbs ==
    /\ pc = "blurbs"
    /\ IF ~ keys_df_bound
       THEN /\ pc' = "raised"
            /\ exception' = Some("UnboundLocalError: keys_df")
            /\ UNCHANGED combined_df
       ELSE LET m1 == combine_data(
                        SeriesValues(process_blurb_population_data(keys_df, combined_df)),
                        "population_blurb", combined_df)
                m2 == combine_data(
                        SeriesValues(process_blurb_median_household_income_data(keys_df, m1.df)),
                        "median_household_income_blurb", m1.df)
                m3 == combine_data(
                        SeriesValues(process_blurb_median_sale_price_data(keys_df, m2.df, redfin_date)),
                        "median_sale_price_blurb", m2.df)
            IN  /\ combined_df' = IF m1.raised THEN m1.df
                                   ELSE IF m2.raised THEN m2.df ELSE m3.df
                /\ IF m1.raised \/ m2.raised \/ m3.raised
                   THEN /\ pc' = "raised"
                        /\ exception' = Some("ValueError: Length of values does not match length of index")
                   ELSE /\ pc' = "final"
                        /\ UNCHANGED exception
    /\ UNCHANGED <<args, ret, input_dir, csv_files, todo, keys_df_bound, keys_df, redfin_date,
                   src, reader_out, failed, output_file, cli_msg>>

\* The try block: ratio, its rank, its blurb, the write of output.csv; and
\* the except branch, which writes only when output_path was assigned (the
\* failure is the write itself) and the file does not exist.
FinalProcessing ==
    /\ pc = "final"
    /\ LET ratio == calculate_house_affordability_ratio(combined_df)
           df1 == set_column(ratio.series, "house_affordability_ratio", combined_df)
           df2 == set_column(process_rank_data(df1, "house_affordability_ratio", TRUE),
                             "house_affordability_ratio_rank", df1)
           m3 == combine_data(
                   SeriesValues(process_blurb_house_affordability_ratio_data(
                                    keys_df, df2, redfin_date)),
                   "house_affordability_ratio_blurb", df2)
       IN  IF ratio.raised
           THEN /\ combined_df' = combined_df
                /\ pc' = "returned"
                /\ UNCHANGED <<output_file, exception>>
           ELSE IF m3.raised
           THEN /\ combined_df' = df2
                /\ pc' = "returned"
                /\ UNCHANGED <<output_file, exception>>
           ELSE /\ combined_df' = m3.df
                /\ \E disk \in DiskOutcomes :
                      CASE disk = "written" ->
                             /\ output_file' = Some([how |-> "complete", df |-> m3.df])
                             /\ pc' = "returned"
                             /\ UNCHANGED exception
                        [] disk = "failed_then_written" ->
                             /\ output_file' = Some([how |-> "partial", df |-> m3.df])
                             /\ pc' = "returned"
                             /\ UNCHANGED exception
                        [] disk = "failed_file_left" ->
                             /\ output_file' = Some([how |-> "broken", df |-> <<>>])
                             /\ pc' = "returned"
                             /\ UNCHANGED exception
                        [] disk = "failed_twice" ->
                             /\ output_file' = NA
                             /\ pc' = "raised"
                             /\ exception' = Some("OSError: to_csv")
    /\ UNCHANGED <<args, ret, input_dir, csv_files, todo, keys_df_bound, keys_df, redfin_date,
                   src, reader_out, failed, cli_msg>>

\* cli.process: the summary after process_csv_files returned or raised.
CliReport ==
    /\ pc \in {"returned", "raised"}
    /\ cli_msg' = IF pc = "returned" THEN "success" ELSE "error"
    /\ pc' = "exit"
    /\ UNCHANGED <<args, ret, input_dir, csv_files, todo, keys_df_bound, keys_df, combined_df,
                   redfin_date, src, reader_out, failed, output_file, exception>>

Next ==
    \/ GetCsvFiles
    \/ ProcessKeysFile
    \/ ProcessDataFile
    \/ CalculateRanks
    \/ GenerateBlurbs
    \/ FinalProcessing
    \/ CliReport

Spec == Init /\ [][Next]_vars

----------------------------------------------------------------------------
\* The blurb generators on their own: any registry frame, any ranked rows.

\* Largest number of rows of the table handed to the generators.
MaxBlurbRows == 2

BlurbKeys == {r \in KeyPool : r.key_row \in {alabama, washington_dc}}
BlurbIds == {alabama, washington_dc, puerto_rico}
BlurbRanks == {Some(get_ordinal(Some(n))) : n \in {1, 2, 3, 11, 21}} \cup {Some("N/A")}

BlurbRow(id, rank) ==
    [EmptyRow EXCEPT !["key_row"] = id,
                     !["population_rank"] = rank,
                     !["median_household_income_rank"] = rank,
                     !["median_sale_price_rank"] = rank,
                     !["house_affordability_ratio_rank"] = rank]

BlurbRows == {BlurbRow(id, rank) : id \in BlurbIds, rank \in BlurbRanks}

InitBlurb ==
    /\ input_dir = {}
    /\ csv_files = {}
    /\ todo = {}
    /\ pc = "blurb_call"
    /\ keys_df_bound = TRUE
    /\ keys_df \in SeqUpTo(BlurbKeys, 2)
    /\ combined_df \in SeqUpTo(BlurbRows, MaxBlurbRows)
    /\ redfin_date \in {NA, Some("February 2024")}
    /\ src = [f \in AllFiles |-> NA]
    /\ reader_out = [c \in {"census_population", "median_household_income",
                            "median_sale_price"} |-> NA]
    /\ failed = {}
    /\ output_file = NA
    /\ exception = NA
    /\ cli_msg = "none"
    /\ args = NA
    /\ ret = NA

\* The four generators, each merged into its column.
BlurbCalls ==
    /\ pc = "blurb_call"
    /\ LET m1 == combine_data(
                   SeriesValues(process_blurb_population_data(keys_df, combined_df)),
                   "population_blurb", combined_df)
           m2 == combine_data(
                   SeriesValues(process_blurb_median_household_income_data(keys_df, m1.df)),
                   "median_household_income_blurb", m1.df)
           m3 == combine_data(
                   SeriesValues(process_blurb_median_sale_price_data(keys_df, m2.df, redfin_date)),
                   "median_sale_price_blurb", m2.df)
           m4 == combine_data(
                   SeriesValues(process_blurb_house_affordability_ratio_data(
                                    keys_df, m3.df, redfin_date)),
                   "house_affordability_ratio_blurb", m3.df)
       IN  IF m1.raised \/ m2.raised \/ m3.raised \/ m4.raised
           THEN /\ pc' = "raised"
                /\ exception' = Some("ValueError: Length of values does not match length of index")
                /\ UNCHANGED combined_df
           ELSE /\ pc' = "blurb_done"
                /\ combined_df' = m4.df
                /\ UNCHANGED exception
    /\ UNCHANGED <<args, ret, input_dir, csv_files, todo, keys_df_bound, keys_df, redfin_date,
                   src, reader_out, failed, output_file, cli_msg>>

NextBlurb == BlurbCalls

SpecBlurb == InitBlurb /\ [][NextBlurb]_vars

----------------------------------------------------------------------------
\* calculate_house_affordability_ratio on its own: any sale prices and incomes.

\* Largest number of rows of the table handed to the ratio calculation.
MaxRatioRows == 2

RatioPrices == {NA, Some(300000), Some(129000), Some(345000), Some(999000)}
RatioIncomes == {NA, Some(0), Some(60000), Some(25000)}

RatioRows ==
    {[EmptyRow EXCEPT !["key_row"] = alabama,
                      !["median_sale_price"] = p,
                      !["median_household_income"] = q] :
        p \in RatioPrices, q \in RatioIncomes}

InitRatio ==
    /\ input_dir = {}
    /\ csv_files = {}
    /\ todo = {}
    /\ pc = "ratio_call"
    /\ keys_df_bound = TRUE
    /\ keys_df = <<>>
    /\ combined_df \in SeqUpTo(RatioRows, MaxRatioRows)
    /\ redfin_date = NA
    /\ src = [f \in AllFiles |-> NA]
    /\ reader_out = [c \in {"census_population", "median_household_income",
                            "median_sale_price"} |-> NA]
    /\ failed = {}
    /\ output_file = NA
    /\ exception = NA
    /\ cli_msg = "none"
    /\ args = NA
    /\ ret = NA

\* combined_df["house_affordability_ratio"] = calculate_house_affordability_ratio(combined_df)
RatioCall ==
    /\ pc = "ratio_call"
    /\ LET ratio == calculate_house_affordability_ratio(combined_df)
       IN  IF ratio.raised
           THEN /\ pc' = "raised"
                /\ exception' = Some("ZeroDivisionError: division by zero")
                /\ UNCHANGED combined_df
           ELSE /\ pc' = "ratio_done"
                /\ combined_df' = set_column(ratio.series, "house_affordability_ratio",
                                             combined_df)
                /\ UNCHANGED exception
    /\ UNCHANGED <<args, ret, input_dir, csv_files, todo, keys_df_bound, keys_df,
                   redfin_date, src, reader_out, failed, output_file, cli_msg>>

NextRatio == RatioCall

SpecRatio == InitRatio /\ [][NextRatio]_vars

----------------------------------------------------------------------------
\* get_ordinal on its own: any rank.

\* Largest rank handed to get_ordinal.
MaxRank == 125

InitOrdinal ==
    /\ input_dir = {}
    /\ csv_files = {}
    /\ todo = {}
    /\ pc = "ordinal_call"
    /\ keys_df_bound = FALSE
    /\ keys_df = <<>>
    /\ combined_df = <<>>
    /\ redfin_date = NA
    /\ src = [f \in AllFiles |-> NA]
    /\ reader_out = [c \in {"census_population", "median_household_income",
                            "median_sale_price"} |-> NA]
    /\ failed = {}
    /\ output_file = NA
    /\ exception = NA
    /\ cli_msg = "none"
    /\ args \in {Some(n) : n \in 1..MaxRank}
    /\ ret = NA

\* ranks.apply(get_ordinal), one element.
OrdinalCall ==
    /\ pc = "ordinal_call"
    /\ ret' = Some(get_ordinal(args))
    /\ pc' = "ordinal_done"
    /\ UNCHANGED <<args, input_dir, csv_files, todo, keys_df_bound, keys_df,
                   combined_df, redfin_date, src, reader_out, failed, output_file,
                   exception, cli_msg>>

NextOrdinal == OrdinalCall

SpecOrdinal == InitOrdinal /\ [][NextOrdinal]_vars

----------------------------------------------------------------------------
\* process_rank_data on its own: any table, in any order of its rows.

\* Largest number of rows of the table handed to process_rank_data.
MaxRankRows == 3

RankIds == <<alabama, washington_dc, puerto_rico, <<"alaska">> >>
RankValues == {NA, Some(3000), Some(5000), Some(25000)}
RankColumns == {"census_population", "house_affordability_ratio"}

\* The tables of n regions with a value, or none, in column c.
RankTables(n, c) ==
    {[i \in 1..n |-> [EmptyRow EXCEPT !["key_row"] = RankIds[i], ![c] = v[i]]] :
        v \in [1..n -> RankValues]}

\* The orders of n rows.
Orders(n) == {f \in [1..n -> 1..n] : \A i, j \in 1..n : f[i] = f[j] => i = j}

\* df.iloc[order]
reorder(df, order) == [j \in DOMAIN df |-> df[order[j]]]

InitRank ==
    /\ input_dir = {}
    /\ csv_files = {}
    /\ todo = {}
    /\ pc = "rank_call"
    /\ keys_df_bound = FALSE
    /\ keys_df = <<>>
    /\ \E n \in 0..MaxRankRows, c \in RankColumns :
          /\ combined_df \in RankTables(n, c)
          /\ args \in {Some([order |-> o, column_name |-> c, ascending |-> a]) :
                          o \in Orders(n), a \in BOOLEAN}
    /\ redfin_date = NA
    /\ src = [f \in AllFiles |-> NA]
    /\ reader_out = [c \in {"census_population", "median_household_income",
                            "median_sale_price"} |-> NA]
    /\ failed = {}
    /\ output_file = NA
    /\ exception = NA
    /\ cli_msg = "none"
    /\ ret = NA

\* process_rank_data on the table and on the table with its rows reordered.
RankCall ==
    /\ pc = "rank_call"
    /\ ret' = Some([ranks |-> process_rank_data(combined_df, Val(args).column_name,
                                                Val(args).ascending),
                    reordered |-> process_rank_data(
                                      reorder(combined_df, Val(args).order),
                                      Val(args).column_name, Val(args).ascending)])
    /\ pc' = "rank_done"
    /\ UNCHANGED <<args, input_dir, csv_files, todo, keys_df_bound, keys_df,
                   combined_df, redfin_date, src, reader_out, failed, output_file,
                   exception, cli_msg>>

NextRank == RankCall

SpecRank == InitRank /\ [][NextRank]_vars

----------------------------------------------------------------------------
\* process_median_sale_price_data on its own: any cells in a region's row.

\* Largest number of date columns of the Redfin frame.
MaxDates == 3

P_1_5K == <<"$", "1", ".", "5", "K">>
P_empty == <<>>

\* What a cell of a date column may hold: NaN, "", a price, other text.
SaleCells == {NA, Some(P_empty), Some(P_300K), Some(P_565K), Some(P_1_5K), Some(P_bad)}

DateLabels == <<"January 2024", "February 2024", "March 2024", "April 2024">>

\* Redfin frames with d date columns: a row for the District of Columbia
\* and, or not, a row for Alabama with any cells.
SaleFiles(d) ==
    LET header == [region |-> "Region", cells |-> [c \in 1..d |-> DateLabels[c]]]
        dc_row == [region |-> "District of Columbia",
                   cells |-> [c \in 1..d |-> Some(P_999K)]]
    IN  {[readable |-> TRUE, rows |-> <<header, dc_row>>]}
        \cup {[readable |-> TRUE,
               rows |-> <<header, dc_row, [region |-> "Alabama", cells |-> cells]>>] :
                 cells \in [1..d -> SaleCells]}

SaleKeys == <<KeyRecord(alabama, "state", "Alabama", "Alabama"),
              KeyRecord(washington_dc, "state", "District of Columbia",
                        "Washington, D.C.")>>

InitSalePrice ==
    /\ input_dir = {F_KEYS, F_REDFIN}
    /\ csv_files = {F_KEYS, F_REDFIN}
    /\ todo = {F_REDFIN}
    /\ pc = "sale_price_call"
    /\ keys_df_bound = TRUE
    /\ keys_df = SaleKeys
    /\ combined_df = combine_data(process_keys_data(SaleKeys), "key_row", <<>>).df
    /\ redfin_date = NA
    /\ \E d \in 1..MaxDates : \E file \in SaleFiles(d) :
          src = [f \in AllFiles |-> IF f = F_REDFIN THEN Some(file) ELSE NA]
    /\ reader_out = [c \in {"census_population", "median_household_income",
                            "median_sale_price"} |-> NA]
    /\ failed = {}
    /\ output_file = NA
    /\ exception = NA
    /\ cli_msg = "none"
    /\ args = NA
    /\ ret = NA

\* The REDFIN branch of the second loop on the frame read.
SalePriceCall ==
    /\ pc = "sale_price_call"
    /\ LET read == process_median_sale_price_data(Val(src[F_REDFIN]), keys_df,
                                                  combined_df)
           merged == combine_data(SeriesValues(read.dict), "median_sale_price",
                                  combined_df)
       IN  IF read.raised \/ merged.raised
           THEN /\ pc' = "sale_price_failed"
                /\ failed' = failed \cup {F_REDFIN}
                /\ UNCHANGED <<combined_df, redfin_date, reader_out>>
           ELSE /\ pc' = "sale_price_done"
                /\ reader_out' = [reader_out EXCEPT !["median_sale_price"] = Some(read.dict)]
                /\ redfin_date' = read.latest_date
                /\ combined_df' = merged.df
                /\ UNCHANGED failed
    /\ todo' = {}
    /\ UNCHANGED <<args, ret, input_dir, csv_files, keys_df_bound, keys_df, src,
                   output_file, exception, cli_msg>>

NextSalePrice == SalePriceCall

SpecSalePrice == InitSalePrice /\ [][NextSalePrice]_vars

----------------------------------------------------------------------------
\* time_series_analyzer.calculate_growth_rates.  The frame load_redfin_data
\* returns is a sequence of rows, one per region, each a sequence of prices
\* (NaN where to_numeric found none) under the date columns, oldest first.
\* A growth rate is the exact fraction num/den in percent, in lowest terms,
\* of which the program holds the nearest double.

\* Largest number of regions and of date columns of the frame.
MaxSeriesRows == 2
MaxPeriods == 14

RECURSIVE GCD(_, _)
GCD(a, b) == IF b = 0 THEN a ELSE GCD(b, a % b)

\* (value / earlier - 1) * 100
pct(value, earlier) ==
    LET n == 100 * (value - earlier)
        g == GCD(IF n < 0 THEN -n ELSE n, earlier)
    IN  [num |-> n \div g, den |-> earlier \div g]

\* The row with every NaN replaced by the last value before it.
ffill(row) ==
    [t \in DOMAIN row |->
        LET seen == {u \in 1..t : row[u] # NA}
        IN  IF seen = {} THEN NA ELSE row[CHOOSE u \in seen : \A w \in seen : w <= u]]

\* pct_change with fill_method="pad": computed on the forward-filled row.
pct_change_pad(row, periods) ==
    LET filled == ffill(row)
    IN  [t \in DOMAIN row |->
            IF t - periods >= 1 /\ filled[t] # NA /\ filled[t - periods] # NA
            THEN Some(pct(Val(filled[t]), Val(filled[t - periods])))
            ELSE NA]

\* DataFrame.pct_change(periods, axis=1, fill_method=None) on one row: NaN
\* in the first `periods` columns and wherever one of the two values is NaN.
pct_change(row, periods) ==
    [t \in DOMAIN row |->
        IF t - periods >= 1 /\ row[t] # NA /\ row[t - periods] # NA
        THEN Some(pct(Val(row[t]), Val(row[t - periods])))
        ELSE NA]

\* The last column of both frames; .iloc[:, -1] raises IndexError on a
\* frame without columns.
calculate_growth_rates(df) ==
    IF \E i \in DOMAIN df : Len(df[i]) = 0
    THEN [raised |-> TRUE, rows |-> <<>>]
    ELSE [raised |-> FALSE,
          rows |-> [i \in DOMAIN df |->
                      [mom_growth |-> pct_change(df[i], 1)[Len(df[i])],
                       yoy_growth |-> pct_change(df[i], 12)[Len(df[i])]]]]

Prices == {NA, Some(100000), Some(110000)}
OlderPrices == {NA, Some(121000)}

\* The rows of n periods: any latest price, any previous price, any price
\* 12 periods back, and the other periods all without a price or all with.
SeriesRows(n) ==
    {[t \in 1..n |-> IF t = n THEN latest
                     ELSE IF t = n - 1 THEN previous
                     ELSE IF t = n - 12 THEN back12
                     ELSE other] :
        latest \in Prices, previous \in Prices, back12 \in Prices,
        other \in OlderPrices}

InitGrowth ==
    /\ input_dir = {}
    /\ csv_files = {}
    /\ todo = {}
    /\ pc = "growth_call"
    /\ keys_df_bound = FALSE
    /\ keys_df = <<>>
    /\ combined_df = <<>>
    /\ redfin_date = NA
    /\ src = [f \in AllFiles |-> NA]
    /\ reader_out = [c \in {"census_population", "median_household_income",
                            "median_sale_price"} |-> NA]
    /\ failed = {}
    /\ output_file = NA
    /\ exception = NA
    /\ cli_msg = "none"
    /\ \E n \in 0..MaxPeriods, k \in 1..MaxSeriesRows :
          args \in {Some(df) : df \in [1..k -> SeriesRows(n)]}
    /\ ret = NA

GrowthCall ==
    /\ pc = "growth_call"
    /\ LET growth == calculate_growth_rates(Val(args))
       IN  IF growth.raised
           THEN /\ pc' = "raised"
                /\ exception' = Some("IndexError: single positional indexer is out-of-bounds")
                /\ UNCHANGED ret
           ELSE /\ pc' = "growth_done"
                /\ ret' = Some(growth.rows)
                /\ UNCHANGED exception
    /\ UNCHANGED <<args, input_dir, csv_files, todo, keys_df_bound, keys_df,
                   combined_df, redfin_date, src, reader_out, failed, output_file,
                   cli_msg>>

NextGrowth == GrowthCall

SpecGrowth == InitGrowth /\ [][NextGrowth]_vars

----------------------------------------------------------------------------
\* Properties

\* process_csv_files has returned its table to the command.
Returned == pc \in {"returned", "exit"} /\ exception = NA

\* No two rows of the table share a key_row.
UniqueIds(df) ==
    \A i, j \in DOMAIN df : df[i]["key_row"] = df[j]["key_row"] => i = j

SuffixOf(file_path) ==
    IF contains(file_path, "CENSUS_POPULATION") THEN PopSuffix ELSE MhiSuffix

\* The ratio calculation on this table raises ZeroDivisionError.
RatioRaises(df) == calculate_house_affordability_ratio(df).raised

\* The file has been opened and read_csv returned a frame.
WasRead(f) == src[f] # NA /\ Val(src[f]).readable

\* Some row of the table cannot get a value out of census file f.
SomeRegionFails(f) ==
    \E i \in DOMAIN combined_df :
        census_value(Val(src[f]), keys_df, combined_df[i]["key_row"], SuffixOf(f)) = NA

\* C1 (as stated): when the value of one region cannot be extracted from the
\* population or income file, every other region whose value can be
\* extracted still has it in the combined table.
C1_PerRegionIsolation ==
    \A f \in {F_POPULATION, F_INCOME} :
        (WasRead(f) /\ keys_df_bound /\ SomeRegionFails(f)) =>
            \A i \in DOMAIN combined_df :
                LET v == census_value(Val(src[f]), keys_df,
                                      combined_df[i]["key_row"], SuffixOf(f))
                IN  v # NA => combined_df[i][ColumnOf(f)] = v

\* C2 (as stated): a run in which the processing of some input file failed,
\* and nothing else went wrong (no division by zero, no failure of the
\* write), still ends without an exception and with output.csv written.
C2_FileFailureIsolated ==
    ( /\ pc = "exit"
      /\ failed # {}
      /\ UniqueIds(combined_df)
      /\ exception # Some("OSError: to_csv")
      /\ ~ RatioRaises(combined_df) )
    => (exception = NA /\ output_file # NA)

\* C3 (as stated): when the ratio calculation of the final stage fails, the
\* table computed so far is still written to output.csv.
C3_PartialOutputWritten ==
    (Returned /\ RatioRaises(combined_df)) =>
        (output_file # NA /\ Val(output_file).df = combined_df)

\* The rows of the Redfin frame below its header row.
RedfinData == Tail(Val(src[F_REDFIN]).rows)

\* The region of row i has no row in the sale-price source.
NoSourceRow(i) ==
    /\ combined_df[i]["key_row"] \notin {washington_dc, puerto_rico}
    /\ \A r \in DOMAIN RedfinData :
          Some(RedfinData[r].region) #
              find_key_row(keys_df, combined_df[i]["key_row"], "zillow_region_name")

RankNAIffAbsent(i, value_column, rank_column) ==
    combined_df[i][rank_column] = Some("N/A") <=> combined_df[i][value_column] = NA

ExpectedRank(i, value_column, ascending) ==
    LET mine == Val(combined_df[i][value_column])
        better == {j \in DOMAIN combined_df :
                     /\ combined_df[j][value_column] # NA
                     /\ IF ascending THEN Val(combined_df[j][value_column]) < mine
                        ELSE Val(combined_df[j][value_column]) > mine}
    IN  Some(get_ordinal(Some(1 + Cardinality(better))))

RankIsExpected(i, value_column, rank_column, ascending) ==
    combined_df[i][value_column] # NA =>
        combined_df[i][rank_column] = ExpectedRank(i, value_column, ascending)

\* C6: once the ranks are computed, the rank of every present value is the
\* ordinal of 1 + the number of present, strictly better values: higher is
\* better for population, income and sale price, lower for the ratio.
C6_MinimumRank ==
    /\ (pc \in {"blurbs", "final"} \/ Returned) =>
          \A i \in DOMAIN combined_df :
             /\ RankIsExpected(i, "census_population", "population_rank", FALSE)
             /\ RankIsExpected(i, "median_household_income",
                               "median_household_income_rank", FALSE)
             /\ RankIsExpected(i, "median_sale_price", "median_sale_price_rank", FALSE)
    /\ (Returned /\ ~ RatioRaises(combined_df)) =>
          \A i \in DOMAIN combined_df :
             RankIsExpected(i, "house_affordability_ratio",
                            "house_affordability_ratio_rank", TRUE)

\* A final table of three rows with a tie at the top of the sale prices:
\* "1st", "1st", "3rd", and three distinct ratios ranked upwards.
C6_Witness ==
    /\ Returned
    /\ \E i, j, k \in DOMAIN combined_df :
          /\ i # j
          /\ combined_df[i]["median_sale_price"] = combined_df[j]["median_sale_price"]
          /\ combined_df[i]["median_sale_price_rank"] = Some("1st")
          /\ combined_df[j]["median_sale_price_rank"] = Some("1st")
          /\ combined_df[k]["median_sale_price_rank"] = Some("3rd")
          /\ combined_df[k]["house_affordability_ratio_rank"] = Some("1st")
          /\ Val(combined_df[k]["house_affordability_ratio"])
                < Val(combined_df[i]["house_affordability_ratio"])

\* The KEYS file has been processed without an exception.
KeysLoaded == WasRead(F_KEYS) /\ Val(src[F_KEYS]).columns_ok

KeysRows == Val(src[F_KEYS]).rows

TableIds == {combined_df[i]["key_row"] : i \in DOMAIN combined_df}

\* C7 (as stated): the regions of the table are the state rows of the KEYS
\* file plus washington_dc and puerto_rico, minus the ids with an apostrophe.
C7_RegistryWithHardCodedRows ==
    KeysLoaded =>
        TableIds = {id \in {KeysRows[r].key_row :
                              r \in {q \in DOMAIN KeysRows :
                                       KeysRows[q].region_type = "state"}}
                             \cup {washington_dc, puerto_rico} :
                        ~ contains(id, "'")}

\* The rows of the KEYS file that are states without an apostrophe.
KeptRows ==
    {r \in DOMAIN KeysRows :
        KeysRows[r].region_type = "state" /\ ~ contains(KeysRows[r].key_row, "'")}

\* C7 (amended): the regions of the table are exactly the rows of the KEYS
\* file with region_type "state" and no apostrophe in the id, one table row
\* per such row; washington_dc and puerto_rico are regions only when the
\* KEYS file lists them as such rows.
C7_RegistryLoad ==
    KeysLoaded =>
        /\ TableIds = {KeysRows[r].key_row : r \in KeptRows}
        /\ Len(combined_df) = Cardinality(KeptRows)

\* A KEYS file with a state row that is kept, a state row with an apostrophe
\* and a row that is not a state, and without washington_dc.
C7_Witness ==
    /\ KeysLoaded
    /\ Len(combined_df) = 1
    /\ washington_dc \notin TableIds
    /\ \E r \in DOMAIN KeysRows : contains(KeysRows[r].key_row, "'")
    /\ \E r \in DOMAIN KeysRows : KeysRows[r].region_type # "state"

DataColumns == {"census_population", "median_household_income", "median_sale_price"}

\* C8 (as stated): once a reader has returned its series, each row holds in
\* the reader's column the series' value for the row's own id, and no value
\* for an id the series lacks.
C8_MergeById ==
    \A c \in DataColumns :
        reader_out[c] # NA =>
            \A i \in DOMAIN combined_df :
                combined_df[i][c] =
                    IF DictHas(Val(reader_out[c]), combined_df[i]["key_row"])
                    THEN DictGet(Val(reader_out[c]), combined_df[i]["key_row"])
                    ELSE NA

\* C8 (amended): the merge is by position.  When the reader's series has as
\* many values as the table has rows, which is so exactly when the ids are
\* unique, each row holds the series' value for its own id; otherwise the
\* merge raises and every cell of the column stays absent.  The rows stay
\* those of the registry, in its order.
C8_MergeByPosition ==
    /\ \A c \in DataColumns :
          reader_out[c] # NA =>
             /\ Len(Val(reader_out[c])) = Len(combined_df) <=> UniqueIds(combined_df)
             /\ \A i \in DOMAIN combined_df :
                   combined_df[i][c] =
                       IF Len(Val(reader_out[c])) = Len(combined_df)
                       THEN DictGet(Val(reader_out[c]), combined_df[i]["key_row"])
                       ELSE NA
    /\ KeysLoaded =>
          /\ Len(combined_df) = Cardinality(KeptRows)
          /\ \A i, j \in DOMAIN combined_df :
                i < j => \E r, q \in KeptRows :
                            /\ r < q
                            /\ KeysRows[r].key_row = combined_df[i]["key_row"]
                            /\ KeysRows[q].key_row = combined_df[j]["key_row"]

\* A table of three distinct regions after the sale-price merge, one of
\* them without a value in the series, and the population merged as well.
C8_Witness ==
    /\ reader_out["median_sale_price"] # NA
    /\ reader_out["census_population"] # NA
    /\ Len(combined_df) = 3
    /\ UniqueIds(combined_df)
    /\ \E i, j \in DOMAIN combined_df :
          /\ combined_df[i]["median_sale_price"] = NA
          /\ combined_df[j]["median_sale_price"] = Some(138000)
          /\ combined_df[i]["census_population"] # NA

\* The text of a blurb begins with the fallback label of the row's id.
HasFallbackName(blurb, id) ==
    /\ Len(blurb) >= Len(id) + 2
    /\ SubSeq(blurb, 1, Len(id) + 2) = <<"Region (">> \o id \o <<")">>

BlurbColumns == {"population_blurb", "median_household_income_blurb",
                 "median_sale_price_blurb", "house_affordability_ratio_blurb"}

\* C9 (as stated): when the registry has no row for a region's id, each of
\* the four blurbs names the region "Region (<id>)" and none reads "None".
C9_BlurbFallbackName ==
    pc = "blurb_done" =>
        \A i \in DOMAIN combined_df :
            find_key_row(keys_df, combined_df[i]["key_row"], "alternative_name") = NA =>
                \A c \in BlurbColumns :
                    /\ HasFallbackName(Val(combined_df[i][c]), combined_df[i]["key_row"])
                    /\ ~ contains(Val(combined_df[i][c]), "None")

\* The blurb of column c in row i holds the segment s.
BlurbHas(i, c, s) == contains(Val(combined_df[i][c]), s)

\* C10: for a rank "1st" the population blurb holds "1st", the income blurb
\* holds "the highest" and not "1st", the sale-price and affordability
\* blurbs hold "single" and not "1st"; for any other rank each blurb holds
\* the rank string itself.
C10_BlurbRankText ==
    pc = "blurb_done" =>
        \A i \in DOMAIN combined_df :
            /\ BlurbHas(i, "population_blurb", Val(combined_df[i]["population_rank"]))
            /\ IF combined_df[i]["median_household_income_rank"] = Some("1st")
               THEN /\ BlurbHas(i, "median_household_income_blurb", "the highest")
                    /\ ~ BlurbHas(i, "median_household_income_blurb", "1st")
               ELSE BlurbHas(i, "median_household_income_blurb",
                             Val(combined_df[i]["median_household_income_rank"]))
            /\ IF combined_df[i]["median_sale_price_rank"] = Some("1st")
               THEN /\ BlurbHas(i, "median_sale_price_blurb", "single")
                    /\ ~ BlurbHas(i, "median_sale_price_blurb", "1st")
               ELSE BlurbHas(i, "median_sale_price_blurb",
                             Val(combined_df[i]["median_sale_price_rank"]))
            /\ IF combined_df[i]["house_affordability_ratio_rank"] = Some("1st")
               THEN /\ BlurbHas(i, "house_affordability_ratio_blurb", "single")
                    /\ ~ BlurbHas(i, "house_affordability_ratio_blurb", "1st")
               ELSE BlurbHas(i, "house_affordability_ratio_blurb",
                             Val(combined_df[i]["house_affordability_ratio_rank"]))

\* Blurbs generated for a row ranked "1st" and a row ranked "21st".
C10_Witness ==
    /\ pc = "blurb_done"
    /\ \E i, j \in DOMAIN combined_df :
          /\ combined_df[i]["median_household_income_rank"] = Some("1st")
          /\ combined_df[j]["median_household_income_rank"] = Some("21st")
          /\ combined_df[i]["population_blurb"] # NA
          /\ combined_df[j]["house_affordability_ratio_blurb"] # NA

\* Row i has a sale price and an income.
BothPresent(i) ==
    /\ combined_df[i]["median_sale_price"] # NA
    /\ combined_df[i]["median_household_income"] # NA

\* r tenths is within half a tenth of p / q.
IsRoundedToTenth(r, p, q) ==
    /\ 20 * p - 2 * r * q <= q
    /\ 2 * r * q - 20 * p <= q

\* Row i holds sale price / income rounded to one decimal when it has both,
\* 5.0 for 300000 and 60000, and no ratio exactly when it lacks one of them.
RatioOfRow(i) ==
    LET p == combined_df[i]["median_sale_price"]
        q == combined_df[i]["median_household_income"]
        r == combined_df[i]["house_affordability_ratio"]
    IN  /\ r = NA <=> ~ BothPresent(i)
        /\ BothPresent(i) => IsRoundedToTenth(Val(r), Val(p), Val(q))
        /\ (p = Some(300000) /\ q = Some(60000)) => r = Some(50)

\* C11 (as stated): after the ratio calculation every region with a sale
\* price and an income has their quotient rounded to one decimal as its
\* ratio, and a region lacks a ratio if and only if it lacks one of the two.
C11_RatioEveryRegion ==
    pc \in {"ratio_done", "raised"} =>
        \A i \in DOMAIN combined_df : RatioOfRow(i)

\* C11 (amended): when no region has an income of 0 beside a sale price the
\* calculation returns and every region's ratio is as stated; when some
\* region has, the calculation raises ZeroDivisionError and no region gets
\* a ratio.
C11_Ratio ==
    pc \in {"ratio_done", "raised"} =>
        IF \E i \in DOMAIN combined_df :
               BothPresent(i) /\ combined_df[i]["median_household_income"] = Some(0)
        THEN /\ pc = "raised"
             /\ \A i \in DOMAIN combined_df :
                    combined_df[i]["house_affordability_ratio"] = NA
        ELSE /\ pc = "ratio_done"
             /\ \A i \in DOMAIN combined_df : RatioOfRow(i)

\* The ratio 5.0 of 300000 and 60000 beside a region without an income and
\* without a ratio.
C11_Witness ==
    /\ pc = "ratio_done"
    /\ \E i, j \in DOMAIN combined_df :
          /\ combined_df[i]["median_sale_price"] = Some(300000)
          /\ combined_df[i]["median_household_income"] = Some(60000)
          /\ combined_df[i]["house_affordability_ratio"] = Some(50)
          /\ combined_df[j]["median_sale_price"] # NA
          /\ combined_df[j]["median_household_income"] = NA
          /\ combined_df[j]["house_affordability_ratio"] = NA

\* The suffix of the ordinal of n.
OrdinalSuffix(n) ==
    IF n % 100 \in {11, 12, 13} THEN "th"
    ELSE IF n % 10 = 1 THEN "st"
    ELSE IF n % 10 = 2 THEN "nd"
    ELSE IF n % 10 = 3 THEN "rd"
    ELSE "th"

\* C12: for every positive rank n, get_ordinal returns n followed by "th"
\* when n mod 100 is 11, 12 or 13, otherwise by "st", "nd", "rd" when n mod
\* 10 is 1, 2, 3 and by "th" otherwise; 1st, 11th, 12th, 13th and 21st.
C12_Ordinal ==
    pc = "ordinal_done" =>
        /\ ret = Some(ToString(Val(args)) \o OrdinalSuffix(Val(args)))
        /\ args = Some(1) => ret = Some("1st")
        /\ args = Some(11) => ret = Some("11th")
        /\ args = Some(12) => ret = Some("12th")
        /\ args = Some(13) => ret = Some("13th")
        /\ args = Some(21) => ret = Some("21st")

\* The ordinal of a rank above 100 whose last two digits are 12.
C12_Witness ==
    /\ pc = "ordinal_done"
    /\ args = Some(112)
    /\ ret = Some("112th")

\* C13: ranking the table with its rows in another order gives every region
\* the rank it has in the original order, for any column and direction.
C13_RankOrderInvariant ==
    pc = "rank_done" =>
        \A j \in DOMAIN combined_df :
            Val(ret).reordered[j] = Val(ret).ranks[Val(args).order[j]]

\* Three regions ranked with their rows rotated: the ranks "1st", "1st"
\* (a tie) and "N/A" (no value) follow their regions to the new positions.
C13_Witness ==
    /\ pc = "rank_done"
    /\ Len(combined_df) = 3
    /\ Val(args).order = <<2, 3, 1>>
    /\ combined_df[1][Val(args).column_name] = combined_df[3][Val(args).column_name]
    /\ Val(ret).ranks = <<Some("1st"), Some("N/A"), Some("1st")>>
    /\ Val(ret).reordered = <<Some("N/A"), Some("1st"), Some("1st")>>

\* The text of a price without its leading "$" and its trailing "K".
PriceBody(t) ==
    LET no_dollar == IF Len(t) > 0 /\ Head(t) = "$" THEN Tail(t) ELSE t
    IN  IF Len(no_dollar) > 0 /\ no_dollar[Len(no_dollar)] = "K"
        THEN SubSeq(no_dollar, 1, Len(no_dollar) - 1) ELSE no_dollar

EndsWithK(t) == Len(t) > 0 /\ t[Len(t)] = "K"

\* The text is a price: digits with at most one decimal point between an
\* optional "$" and an optional "K".
WellFormedPrice(t) == int_of_float_str(PriceBody(t)) # NA

\* The number of dollars a price stands for, K meaning thousands, cut to an
\* integer.
PriceInDollars(t) ==
    LET body == PriceBody(t)
        dots == {i \in DOMAIN body : body[i] = "."}
        whole == Val(int_of_float_str(body))
        frac == IF dots = {} THEN <<>>
                ELSE SubSeq(body, (CHOOSE i \in dots : TRUE) + 1, Len(body))
    IN  IF EndsWithK(t)
        THEN 1000 * whole + DigitsValue(SubSeq(frac \o <<"0", "0", "0">>, 1, 3))
        ELSE whole

\* The rows of the sale-price frame for the region of table row i.
SourceRows(i) ==
    {r \in DOMAIN RedfinData :
        Some(RedfinData[r].region) =
            find_key_row(keys_df, combined_df[i]["key_row"], "zillow_region_name")}

\* C14 (as stated): a region other than DC and Puerto Rico with a row in
\* the source gets the price of the most recent cell of its row that is
\* neither empty nor NA, "$" stripped and "K" read as thousands, and gets no
\* sale price when every cell of the row is empty or NA.
C14_LatestReading ==
    pc \in {"sale_price_done", "sale_price_failed"} =>
        \A i \in DOMAIN combined_df :
            (combined_df[i]["key_row"] \notin {washington_dc, puerto_rico}
             /\ SourceRows(i) # {}) =>
                LET r == CHOOSE q \in SourceRows(i) : \A x \in SourceRows(i) : q <= x
                    cells == RedfinData[r].cells
                    usable == {c \in DOMAIN cells : cells[c] # NA /\ cells[c] # Some(<<>>)}
                    latest == CHOOSE c \in usable : \A x \in usable : x <= c
                IN  IF usable = {}
                    THEN pc = "sale_price_done" /\ combined_df[i]["median_sale_price"] = NA
                    ELSE WellFormedPrice(Val(cells[latest])) =>
                            /\ pc = "sale_price_done"
                            /\ combined_df[i]["median_sale_price"] =
                                   Some(PriceInDollars(Val(cells[latest])))

\* The growth g is (value / earlier - 1) * 100.
IsGrowth(g, value, earlier) ==
    g # NA /\ Val(g).num * earlier = 100 * (value - earlier) * Val(g).den

\* The growth of a region over `periods` columns, at the last column of its
\* row: defined from the last value and the value `periods` columns back
\* when the row is that long and has both, undefined otherwise.
GrowthOfRow(g, row, periods) ==
    LET n == Len(row)
    IN  IF n > periods /\ row[n] # NA /\ row[n - periods] # NA
        THEN IsGrowth(g, Val(row[n]), Val(row[n - periods]))
        ELSE g = NA

OwnColumn(f) ==
    CASE f = F_POPULATION -> "census_population"
      [] f = F_INCOME -> "median_household_income"
      [] f = F_REDFIN -> "median_sale_price"

\* C16: the stage of a source file changes no column of the table but its
\* own (census_population, median_household_income, median_sale_price), and
\* no stage after the registry stage changes the key_row column, the order
\* of the rows or their number.
C16_StageFrame ==
    [][ /\ pc = "data" =>
              \A f \in todo \ todo' :
                  \A c \in output_columns \ {OwnColumn(f)} :
                      Column(combined_df', c) = Column(combined_df, c)
        /\ pc \notin {"get_csv_files", "keys"} =>
              /\ Len(combined_df') = Len(combined_df)
              /\ Column(combined_df', "key_row") = Column(combined_df, "key_row")
      ]_vars

\* A table of three regions after the population and the income stages,
\* each having filled its own column, with the sale-price stage to come.
C16_Witness ==
    /\ pc = "data"
    /\ todo = {F_REDFIN}
    /\ Len(combined_df) = 3
    /\ \A i \in DOMAIN combined_df :
          /\ combined_df[i]["key_row"] # NA
          /\ combined_df[i]["census_population"] # NA
          /\ combined_df[i]["median_household_income"] # NA
          /\ combined_df[i]["median_sale_price"] = NA

RankColumnOf == [c \in DataColumns \cup {"house_affordability_ratio"} |->
    CASE c = "census_population" -> "population_rank"
      [] c = "median_household_income" -> "median_household_income_rank"
      [] c = "median_sale_price" -> "median_sale_price_rank"
      [] c = "house_affordability_ratio" -> "house_affordability_ratio_rank"]

BlurbColumnOf == [c \in DataColumns \cup {"house_affordability_ratio"} |->
    CASE c = "census_population" -> "population_blurb"
      [] c = "median_household_income" -> "median_household_income_blurb"
      [] c = "median_sale_price" -> "median_sale_price_blurb"
      [] c = "house_affordability_ratio" -> "house_affordability_ratio_blurb"]

\* Some row holds something in column c.
Filled(c) == \E i \in DOMAIN combined_df : combined_df[i][c] # NA

\* The blurbs a generator makes from the table, row by row.
BlurbsOf(c) ==
    SeriesValues(
        CASE c = "census_population" ->
                 process_blurb_population_data(keys_df, combined_df)
          [] c = "median_household_income" ->
                 process_blurb_median_household_income_data(keys_df, combined_df)
          [] c = "median_sale_price" ->
                 process_blurb_median_sale_price_data(keys_df, combined_df, redfin_date)
          [] c = "house_affordability_ratio" ->
                 process_blurb_house_affordability_ratio_data(keys_df, combined_df,
                                                              redfin_date))

\* C17: in whatever order the files are listed, at every moment of the run
\* a source file has been opened only after the KEYS file was read and the
\* rows created; a rank column is filled only after every source file was
\* processed; a blurb is there only in a row whose rank is there; and in
\* the table returned every rank
\* column that was computed is the ranking of its final value column and
\* every blurb column the blurbs of the final ranks.
C17_StageOrder ==
  [](
    /\ \A f \in DataFiles(AllFiles) :
          src[f] # NA =>
             /\ pc \notin {"get_csv_files", "keys"}
             /\ F_KEYS \in csv_files => src[F_KEYS] # NA
             /\ KeysLoaded => Len(combined_df) = Cardinality(KeptRows)
    /\ \A c \in DOMAIN RankColumnOf :
          /\ Filled(RankColumnOf[c]) =>
                /\ todo = {}
                /\ \A f \in DataFiles(csv_files) : src[f] # NA
          /\ \A i \in DOMAIN combined_df :
                combined_df[i][BlurbColumnOf[c]] # NA =>
                    combined_df[i][RankColumnOf[c]] # NA
          /\ (Returned /\ (c \in DataColumns \/ Filled(RankColumnOf[c]))) =>
                /\ Column(combined_df, RankColumnOf[c]) =
                       process_rank_data(combined_df, c, c = "house_affordability_ratio")
                /\ (c \in DataColumns \/ Filled(BlurbColumnOf[c])) =>
                       Column(combined_df, BlurbColumnOf[c]) = BlurbsOf(c) )

\* The sale-price file processed before both census files, after the KEYS
\* file gave the table its three rows.
C17_Witness ==
    /\ pc = "data"
    /\ KeysLoaded
    /\ Len(combined_df) = 3
    /\ src[F_REDFIN] # NA
    /\ src[F_POPULATION] = NA
    /\ src[F_INCOME] = NA
    /\ \E i \in DOMAIN combined_df : combined_df[i]["median_sale_price"] # NA

\* C18 (as stated): when the process command has printed "Processing
\* completed successfully!", output.csv has been written during the run, by
\* the normal write or by the write of the partial table.
C18_SuccessImpliesOutput ==
    cli_msg = "success" =>
        /\ output_file # NA
        /\ Val(output_file).how \in {"complete", "partial"}

====
